---- MODULE Spec2Model ----
(***************************************************************************)
(* Verification model of btrfs-ublk's extent-map validator                 *)
(* (src/src/physical_map.py).  A physical map is a sequence of rows; a row *)
(* is a function from the nine column names to values.  The validator is   *)
(* a pure function, modelled by the operator validate_virtual_data, which  *)
(* returns either a result triple or the name of the assertion that fired. *)
(***************************************************************************)
EXTENDS Integers, Sequences, FiniteSets, TLC

\* ---------------------------------------------------------------------
\* Bounds of the explored input space
\* ---------------------------------------------------------------------
MaxOff == 1
MaxSize == 2
MaxExtOff == 1
MaxFreeRows == 2
MaxChainRows == 3
MaxChainSize == 2
MaxTypedRows == 2
MaxHole == 1
MaxParseRows == 2
MaxFieldDelta == 1
MaxTrailingNL == 2
MaxCount == 3
ScriptLen == 2

\* ---------------------------------------------------------------------
\* Columns (physical_map.py:22-42)
\* ---------------------------------------------------------------------
COL_FILE_OFFSET == "FILE OFFSET"
COL_FILE_SIZE == "FILE SIZE"
COL_EXTENT_OFFSET == "EXTENT OFFSET"
COL_EXTENT_TYPE == "EXTENT TYPE"
COL_LOGICAL_SIZE == "LOGICAL SIZE"
COL_LOGICAL_OFFSET == "LOGICAL OFFSET"
COL_PHYSICAL_SIZE == "PHYSICAL SIZE"
COL_DEVICE_ID == "DEVID"
COL_PHYSICAL_OFFSET == "PHYSICAL OFFSET"

\* One row of a PhysicalMap: Dict[str, Any] keyed by the columns.
Row(fo, fs, eo, ty, ls, lo, ps, dev, po) ==
    (COL_FILE_OFFSET :> fo) @@ (COL_FILE_SIZE :> fs) @@
    (COL_EXTENT_OFFSET :> eo) @@ (COL_EXTENT_TYPE :> ty) @@
    (COL_LOGICAL_SIZE :> ls) @@ (COL_LOGICAL_OFFSET :> lo) @@
    (COL_PHYSICAL_SIZE :> ps) @@ (COL_DEVICE_ID :> dev) @@
    (COL_PHYSICAL_OFFSET :> po)

\* ---------------------------------------------------------------------
\* Python built-ins used by the validator
\* ---------------------------------------------------------------------
\* sum(sz for (_, sz) in c)
RECURSIVE SumSizes(_)
SumSizes(c) ==
    IF c = <<>> THEN 0 ELSE c[1][2] + SumSizes(Tail(c))

\* sum(file_ext_sizes)
RECURSIVE SumSeq(_)
SumSeq(s) ==
    IF s = <<>> THEN 0 ELSE s[1] + SumSeq(Tail(s))

\* Tuple comparison of two pairs, as Python compares tuples.
PairLess(a, b) ==
    \/ a[1] < b[1]
    \/ a[1] = b[1] /\ a[2] < b[2]

PairLeq(a, b) ==
    a = b \/ PairLess(a, b)

\* sorted(set_of_pairs): the ascending sequence of the set's elements.
RECURSIVE SortedPairs(_)
SortedPairs(S) ==
    IF S = {} THEN <<>>
    ELSE LET m == CHOOSE x \in S : \A y \in S : PairLeq(x, y)
         IN <<m>> \o SortedPairs(S \ {m})

\* xs == sorted(xs) for a list of integers.
IsSortedInts(xs) ==
    \A i \in 1..(Len(xs) - 1) : xs[i] <= xs[i + 1]

\* xs == sorted(xs) for a list of pairs.
IsSortedPairs(xs) ==
    \A i \in 1..(Len(xs) - 1) : PairLeq(xs[i], xs[i + 1])

\* Insert row r into the file-offset-sorted sequence s after every row whose
\* key is not greater (keeps equal keys in input order: sorted() is stable).
RECURSIVE InsertByFileOffset(_, _)
InsertByFileOffset(s, r) ==
    IF s = <<>> THEN <<r>>
    ELSE IF s[Len(s)][COL_FILE_OFFSET] <= r[COL_FILE_OFFSET]
         THEN Append(s, r)
         ELSE Append(InsertByFileOffset(SubSeq(s, 1, Len(s) - 1), r), s[Len(s)])

\* sorted(phys_map, key=lambda r: r[COL_FILE_OFFSET])
RECURSIVE SortByFileOffset(_)
SortByFileOffset(pm) ==
    IF pm = <<>> THEN <<>>
    ELSE InsertByFileOffset(SortByFileOffset(SubSeq(pm, 1, Len(pm) - 1)), pm[Len(pm)])

\* {(row[col_offset], row[col_size]) for row in phys_map}
UniqPairs(pm, col_offset, col_size) ==
    { <<pm[i][col_offset], pm[i][col_size]>> : i \in 1..Len(pm) }

\* ---------------------------------------------------------------------
\* gen_continuous_parts (physical_map.py:71-97)
\* ---------------------------------------------------------------------
\* NoOverlap with an off-by-one: a one-block overlap slips through.
NoOverlap_OffByOne(prev_end, offset) ==
    prev_end <= offset + 1

\* The assertion of line 88-90.
NoOverlap(prev_end, offset) ==
    prev_end <= offset

\* Contiguous that never joins two pairs.
Contiguous_Never(prev_end, offset) ==
    FALSE

\* The negation of the test of line 91: the pair starts where the open
\* interval ends.
Contiguous(prev_end, offset) ==
    prev_end = offset

\* Part that takes the end of the interval for its size.
Part_EndAsSize(cur_start, end) ==
    <<cur_start, end>>

\* The interval yielded at lines 92 and 97.
Part(cur_start, end) ==
    <<cur_start, end - cur_start>>

\* The loop of lines 82-94 over the first n pairs.  The scan state holds
\* cur_start and prev_end (meaningful once `started`), the intervals
\* yielded so far, and whether the overlap assertion has fired.
RECURSIVE ScanPairs(_, _)
ScanPairs(uniq_pairs, n) ==
    IF n = 0
    THEN [started |-> FALSE, cur_start |-> 0, prev_end |-> 0,
          parts |-> <<>>, overlap |-> FALSE]
    ELSE LET st == ScanPairs(uniq_pairs, n - 1)
             offset == uniq_pairs[n][1]
             size == uniq_pairs[n][2]
             new_end == offset + size
         IN IF st.overlap THEN st
            ELSE IF ~st.started
            THEN [started |-> TRUE, cur_start |-> offset, prev_end |-> new_end,
                  parts |-> <<>>, overlap |-> FALSE]
            ELSE IF ~NoOverlap(st.prev_end, offset)
            THEN [st EXCEPT !.overlap = TRUE]
            ELSE IF ~Contiguous(st.prev_end, offset)
            THEN [started |-> TRUE, cur_start |-> offset, prev_end |-> new_end,
                  parts |-> Append(st.parts, Part(st.cur_start, st.prev_end)),
                  overlap |-> FALSE]
            ELSE [st EXCEPT !.prev_end = new_end]

\* list(gen_continuous_parts(...)): the yielded intervals, or the overlap
\* assertion.
gen_continuous_parts(pm, col_offset, col_size) ==
    LET uniq_pairs == SortedPairs(UniqPairs(pm, col_offset, col_size))
        st == ScanPairs(uniq_pairs, Len(uniq_pairs))
    IN IF st.overlap THEN [err |-> "OverlapError", parts |-> <<>>]
       ELSE IF st.started
       THEN [err |-> "none", parts |-> Append(st.parts, Part(st.cur_start, st.prev_end))]
       ELSE [err |-> "none", parts |-> st.parts]

\* ---------------------------------------------------------------------
\* validate_virtual_data (physical_map.py:100-242)
\* ---------------------------------------------------------------------
\* CoSorted that checks the logical column only.
CoSorted_LogicalOnly(pm, col_offset) ==
    \/ col_offset # COL_LOGICAL_OFFSET
    \/ IsSortedInts([i \in 1..Len(pm) |-> pm[i][col_offset]])

\* The co-sortedness assertion of get_contigs, lines 137-140.
CoSorted(pm, col_offset) ==
    IsSortedInts([i \in 1..Len(pm) |-> pm[i][col_offset]])

\* get_contigs that checks the co-sortedness of all three offset columns
\* at every call.
get_contigs_AllColumns(pm, col_offset, col_size) ==
    IF \/ ~CoSorted(pm, COL_FILE_OFFSET)
       \/ ~CoSorted(pm, COL_LOGICAL_OFFSET)
       \/ ~CoSorted(pm, COL_PHYSICAL_OFFSET)
    THEN [err |-> "OrderError", parts |-> <<>>]
    ELSE gen_continuous_parts(pm, col_offset, col_size)

\* get_contigs, lines 132-141.
get_contigs(pm, col_offset, col_size) ==
    IF ~CoSorted(pm, col_offset)
    THEN [err |-> "OrderError", parts |-> <<>>]
    ELSE gen_continuous_parts(pm, col_offset, col_size)

\* SingleFileContig that only requires the file to be non-empty.
SingleFileContig_AtLeastOne(file_contigs) ==
    Len(file_contigs) >= 1

\* The assertion of line 149.
SingleFileContig(file_contigs) ==
    Len(file_contigs) = 1

\* chunk_list_sizes, lines 157-167.
chunk_list_sizes(pm, file_contigs, logical_contigs, phys_contigs, logical_extents, physical_extents) ==
    << SumSizes(file_contigs),
       SumSizes(logical_contigs),
       SumSizes(phys_contigs),
       SumSizes([i \in 1..Len(pm) |-> <<pm[i][COL_FILE_OFFSET], pm[i][COL_FILE_SIZE]>>]),
       SumSizes(logical_extents),
       SumSizes(physical_extents) >>

\* LengthsAgree over the three merged-contig totals only.
LengthsAgree_ContigsOnly(sizes) ==
    Cardinality({ sizes[i] : i \in 1..3 }) = 1

\* LengthsAgree over the two physical totals only.
LengthsAgree_PhysicalOnly(sizes) ==
    sizes[3] = sizes[6]

\* The assertion of line 168.
LengthsAgree(sizes) ==
    Cardinality({ sizes[i] : i \in 1..Len(sizes) }) = 1

\* The index of the logical extent a closed group is compared against
\* (line 195).  log_ext_idx is set to 0 at the first group (line 192) and
\* is not assigned again.
log_ext_idx(groups_closed) ==
    0

\* The grouping walk of lines 184-203 over the first n rows:
\* file_ext_sizes, the number of groups closed so far, and whether an
\* assertion fired.
RECURSIVE GroupWalk(_, _, _)
GroupWalk(pm, logical_extents, n) ==
    IF n = 0
    THEN [file_ext_sizes |-> <<>>, seen_group |-> FALSE, closed |-> 0, failed |-> FALSE]
    ELSE LET st == GroupWalk(pm, logical_extents, n - 1)
             row == pm[n]
             file_sz == row[COL_FILE_SIZE]
             ext_off == row[COL_EXTENT_OFFSET]
             new_group == (ext_off = 0)
             prev_ok ==
                 IF new_group /\ st.seen_group
                 THEN SumSeq(st.file_ext_sizes)
                          = logical_extents[log_ext_idx(st.closed) + 1][2]
                 ELSE TRUE
             sizes == IF new_group THEN <<>> ELSE st.file_ext_sizes
         IN IF st.failed THEN st
            ELSE IF ~prev_ok \/ ext_off # SumSeq(sizes)
            THEN [st EXCEPT !.failed = TRUE]
            ELSE [file_ext_sizes |-> Append(sizes, file_sz),
                  seen_group |-> st.seen_group \/ new_group,
                  closed |-> IF new_group /\ st.seen_group
                             THEN st.closed + 1 ELSE st.closed,
                  failed |-> FALSE]

\* RowSupported without the device check.
RowSupported_AnyDevice(row) ==
    /\ row[COL_EXTENT_TYPE] = "regular"
    /\ row[COL_PHYSICAL_SIZE] = row[COL_LOGICAL_SIZE]

\* The per-row assertions of lines 205-218.
RowSupported(row) ==
    /\ row[COL_DEVICE_ID] = 1
    /\ row[COL_EXTENT_TYPE] = "regular"
    /\ row[COL_PHYSICAL_SIZE] = row[COL_LOGICAL_SIZE]

\* MaxBySize that keeps the last of several largest elements.
MaxBySize_Last(contigs) ==
    LET i == CHOOSE i \in 1..Len(contigs) :
                 /\ \A j \in 1..Len(contigs) : contigs[j][2] <= contigs[i][2]
                 /\ \A j \in (i + 1)..Len(contigs) : contigs[j][2] < contigs[i][2]
    IN contigs[i]

\* max(phys_contigs, key=lambda x: x[1]), line 227: the first element
\* whose size no other element exceeds.
MaxBySize(contigs) ==
    LET i == CHOOSE i \in 1..Len(contigs) :
                 /\ \A j \in 1..Len(contigs) : contigs[j][2] <= contigs[i][2]
                 /\ \A j \in 1..(i - 1) : contigs[j][2] < contigs[i][2]
    IN contigs[i]

\* file_offset_matches that compares the logical offset of the rows.
RECURSIVE file_offset_matches_ByLogical(_, _)
file_offset_matches_ByLogical(pm, big_phys_off) ==
    IF pm = <<>> THEN <<>>
    ELSE LET rest == file_offset_matches_ByLogical(Tail(pm), big_phys_off)
         IN IF pm[1][COL_LOGICAL_OFFSET] = big_phys_off
            THEN << <<pm[1][COL_FILE_OFFSET], pm[1][COL_EXTENT_OFFSET]>> >> \o rest
            ELSE rest

\* file_offset_matches, lines 228-232.
RECURSIVE file_offset_matches(_, _)
file_offset_matches(pm, big_phys_off) ==
    IF pm = <<>> THEN <<>>
    ELSE LET rest == file_offset_matches(Tail(pm), big_phys_off)
         IN IF pm[1][COL_PHYSICAL_OFFSET] = big_phys_off
            THEN << <<pm[1][COL_FILE_OFFSET], pm[1][COL_EXTENT_OFFSET]>> >> \o rest
            ELSE rest

Fail(name) ==
    [tag |-> name, file_offset |-> 0, physical_offset |-> 0, size |-> 0]

\* LeadingExtentOffset that reads the file offset of the pair.
LeadingExtentOffset_FileOffset(matches) ==
    matches[1][1]

\* file_offset_matches[0][1], line 237.
LeadingExtentOffset(matches) ==
    matches[1][2]

\* Lines 220-242, entered once every earlier assertion has passed.
SelectSegment(pm, phys_contigs) ==
    LET big == MaxBySize(phys_contigs)
        big_phys_off == big[1]
        big_phys_size == big[2]
        matches == file_offset_matches(pm, big_phys_off)
    IN IF ~IsSortedPairs(matches) THEN Fail("AssertionError")
       ELSE IF matches = <<>> THEN Fail("NoMatchError")
       ELSE IF LeadingExtentOffset(matches) # 0 THEN Fail("BoundaryError")
       ELSE [tag |-> "ok", file_offset |-> matches[1][1],
             physical_offset |-> big_phys_off, size |-> big_phys_size]

validate_virtual_data(raw_map) ==
    LET pm == SortByFileOffset(raw_map)
        logical_extents == SortedPairs(UniqPairs(pm, COL_LOGICAL_OFFSET, COL_LOGICAL_SIZE))
        physical_extents == SortedPairs(UniqPairs(pm, COL_PHYSICAL_OFFSET, COL_PHYSICAL_SIZE))
        fc == get_contigs(pm, COL_FILE_OFFSET, COL_FILE_SIZE)
        pc == get_contigs(pm, COL_PHYSICAL_OFFSET, COL_PHYSICAL_SIZE)
        lc == get_contigs(pm, COL_LOGICAL_OFFSET, COL_LOGICAL_SIZE)
    IN IF fc.err # "none" THEN Fail(fc.err)
       ELSE IF ~SingleFileContig(fc.parts) THEN Fail("ContinuityError")
       ELSE IF pc.err # "none" THEN Fail(pc.err)
       ELSE IF lc.err # "none" THEN Fail(lc.err)
       ELSE IF ~LengthsAgree(chunk_list_sizes(pm, fc.parts, lc.parts, pc.parts,
                                              logical_extents, physical_extents))
       THEN Fail("LengthMismatchError")
       ELSE IF GroupWalk(pm, logical_extents, Len(pm)).failed THEN Fail("GroupingError")
       ELSE IF \E i \in 1..Len(pm) : ~RowSupported(pm[i])
       THEN Fail("UnsupportedLayoutError")
       ELSE SelectSegment(pm, pc.parts)

\* ---------------------------------------------------------------------
\* parse (physical_map.py:59-68) and strip_nl (common.py:11-20)
\* ---------------------------------------------------------------------
\* A text is a sequence of symbols: TAB, NL, a character, or a whole
\* column title (a title is never split, so it is one symbol).
TAB == "\t"

NL == "\n"

\* COL_ORDER, lines 32-42.
COL_ORDER ==
    << COL_FILE_OFFSET, COL_FILE_SIZE, COL_EXTENT_OFFSET, COL_EXTENT_TYPE,
       COL_LOGICAL_SIZE, COL_LOGICAL_OFFSET, COL_PHYSICAL_SIZE, COL_DEVICE_ID,
       COL_PHYSICAL_OFFSET >>

\* s.endswith(suffix)
EndsWith(s, suffix) ==
    /\ Len(suffix) <= Len(s)
    /\ SubSeq(s, Len(s) - Len(suffix) + 1, Len(s)) = suffix

\* strip_suffix that returns s unchanged when the suffix is missing.
strip_suffix_Lenient(s, suffix) ==
    IF suffix = <<>> \/ ~EndsWith(s, suffix) THEN [err |-> "none", val |-> s]
    ELSE [err |-> "none", val |-> SubSeq(s, 1, Len(s) - Len(suffix))]

\* strip_suffix, common.py:11-15.
strip_suffix(s, suffix) ==
    IF suffix = <<>> THEN [err |-> "none", val |-> s]
    ELSE IF ~EndsWith(s, suffix) THEN [err |-> "SuffixError", val |-> <<>>]
    ELSE [err |-> "none", val |-> SubSeq(s, 1, Len(s) - Len(suffix))]

\* strip_nl, common.py:18-20.
strip_nl(s) ==
    strip_suffix(s, <<NL>>)

\* s.split(sep) for a one-symbol separator.
RECURSIVE Split(_, _)
Split(s, sep) ==
    IF \A i \in 1..Len(s) : s[i] # sep THEN <<s>>
    ELSE LET i == CHOOSE i \in 1..Len(s) :
                      s[i] = sep /\ \A j \in 1..(i - 1) : s[j] # sep
         IN <<SubSeq(s, 1, i - 1)>> \o Split(SubSeq(s, i + 1, Len(s)), sep)

Digits == <<"0", "1", "2", "3", "4", "5", "6", "7", "8", "9">>

IsDigit(c) ==
    \E d \in 1..Len(Digits) : Digits[d] = c

DigitValue(c) ==
    (CHOOSE d \in 1..Len(Digits) : Digits[d] = c) - 1

\* The value of a non-empty string of digits.
RECURSIVE DigitsValue(_)
DigitsValue(ds) ==
    IF ds = <<>> THEN 0
    ELSE 10 * DigitsValue(SubSeq(ds, 1, Len(ds) - 1)) + DigitValue(ds[Len(ds)])

AllDigits(ds) ==
    ds # <<>> /\ \A i \in 1..Len(ds) : IsDigit(ds[i])

\* int(val), line 64, on texts of digits, signs and letters: an optional
\* sign followed by at least one digit, anything else is a ValueError.
IntOf(val) ==
    IF val # <<>> /\ val[1] \in {"-", "+"} /\ AllDigits(Tail(val))
    THEN [err |-> "none",
          val |-> IF val[1] = "-" THEN 0 - DigitsValue(Tail(val))
                  ELSE DigitsValue(Tail(val))]
    ELSE IF AllDigits(val) THEN [err |-> "none", val |-> DigitsValue(val)]
    ELSE [err |-> "ValueError", val |-> 0]

Min(a, b) ==
    IF a <= b THEN a ELSE b

\* The number of (col, val) pairs zip(COL_ORDER, raw_row) yields, line 65.
ZipLen(raw_row) ==
    Min(Len(COL_ORDER), Len(raw_row))

\* The value stored under COL_ORDER[i], line 64.
CellOf(raw_row, i) ==
    IF COL_ORDER[i] = COL_EXTENT_TYPE THEN [err |-> "none", val |-> raw_row[i]]
    ELSE IntOf(raw_row[i])

\* The dict comprehension of lines 63-66 for one raw row.
RowDict(raw_row) ==
    IF \E i \in 1..ZipLen(raw_row) : CellOf(raw_row, i).err # "none"
    THEN [err |-> "ValueError", val |-> <<>>]
    ELSE [err |-> "none",
          val |-> [c \in { COL_ORDER[i] : i \in 1..ZipLen(raw_row) } |->
                       CellOf(raw_row, CHOOSE i \in 1..Len(COL_ORDER) : COL_ORDER[i] = c).val]]

\* IsHeader that accepts the nine titles in any order.
IsHeader_AnyOrder(raw_row) ==
    /\ Len(raw_row) = Len(COL_ORDER)
    /\ { raw_row[i] : i \in 1..Len(raw_row) } = { <<COL_ORDER[i]>> : i \in 1..Len(COL_ORDER) }

\* raw_rows[0] == COL_ORDER, line 61: every title is one symbol.
IsHeader(raw_row) ==
    raw_row = [i \in 1..Len(COL_ORDER) |-> <<COL_ORDER[i]>>]

ParseFail(name) ==
    [tag |-> name, rows |-> <<>>]

\* parse, lines 59-68.
parse(text) ==
    LET stripped == strip_nl(text)
        lines == Split(stripped.val, NL)
        raw_rows == [i \in 1..Len(lines) |-> Split(lines[i], TAB)]
        dicts == [i \in 1..(Len(raw_rows) - 1) |-> RowDict(raw_rows[i + 1])]
    IN IF stripped.err # "none" THEN ParseFail(stripped.err)
       ELSE IF ~IsHeader(raw_rows[1]) THEN ParseFail("HeaderError")
       ELSE IF \E i \in 1..Len(dicts) : dicts[i].err # "none" THEN ParseFail("ValueError")
       ELSE [tag |-> "ok", rows |-> [i \in 1..Len(dicts) |-> dicts[i].val]]

\* ---------------------------------------------------------------------
\* Input tables
\* ---------------------------------------------------------------------
\* Rows with every numeric column free within the bounds.
FreeRows ==
    { Row(fo, fs, eo, "regular", ls, lo, ps, 1, po) :
        fo \in 0..MaxOff, fs \in 0..MaxSize, eo \in 0..MaxExtOff,
        ls \in 0..MaxSize, lo \in 0..MaxOff, ps \in 0..MaxSize, po \in 0..MaxOff }

\* Tables laid out the way btrfs lays out a file: file extents follow one
\* another without holes, and each row either stays in the logical extent
\* of the row before it ("same"), or references one that starts where the
\* previous one ends ("next") or one block further ("gap").  The physical
\* extent lies `base` blocks after the logical one.
ExtentTypes == {"regular", "inline"}

DeviceIds == {1, 2}

Steps == {"same", "next", "gap"}

ChainParams ==
    [fs : 1..MaxChainSize, eo : 0..MaxExtOff, ls : 1..MaxChainSize,
     step : Steps, ty : {"regular"}, dev : {1}, hole : {0}]

\* Rows that are each a logical extent of their own, of any extent type,
\* on any device, possibly after a hole in the file.
TypedChainParams ==
    { [fs |-> sz, eo |-> 0, ls |-> sz, step |-> st, ty |-> t, dev |-> d, hole |-> h] :
        sz \in 1..MaxChainSize, st \in Steps, t \in ExtentTypes, d \in DeviceIds,
        h \in 0..MaxHole }

\* Chain rows that may be empty: a file extent of size zero starts at the
\* file offset of the row after it.
ZeroSizeChainParams ==
    [fs : 0..MaxChainSize, eo : 0..MaxExtOff, ls : 1..MaxChainSize,
     step : Steps, ty : {"regular"}, dev : {1}, hole : {0}]

RECURSIVE ChainTable(_, _)
ChainTable(p, base) ==
    IF p = <<>> THEN <<>>
    ELSE LET n == Len(p)
             before == ChainTable(SubSeq(p, 1, n - 1), base)
             last == IF n = 1 THEN Row(0, 0, 0, "regular", 0, 0, 0, 1, base)
                     ELSE before[n - 1]
             fo == last[COL_FILE_OFFSET] + last[COL_FILE_SIZE] + p[n].hole
             lo == IF n = 1 \/ p[n].step = "same" THEN last[COL_LOGICAL_OFFSET]
                   ELSE IF p[n].step = "next"
                   THEN last[COL_LOGICAL_OFFSET] + last[COL_LOGICAL_SIZE]
                   ELSE last[COL_LOGICAL_OFFSET] + last[COL_LOGICAL_SIZE] + 1
         IN Append(before, Row(fo, p[n].fs, p[n].eo, p[n].ty, p[n].ls, lo,
                               p[n].ls, p[n].dev, lo + base))

\* ---------------------------------------------------------------------
\* State machine: one call of validate_virtual_data on a drawn table
\* ---------------------------------------------------------------------
VARIABLES phys_map, called, result, report, parsed,
          count, offset_src, offset_dst, copy_pc, copied, copy_args, script, call,
          stack, es_pc, seed_cm, acquired, released, failed, raised

vars == <<phys_map, called, result, report, parsed,
          count, offset_src, offset_dst, copy_pc, copied, copy_args, script, call,
          stack, es_pc, seed_cm, acquired, released, failed, raised>>

\* The variables of the exit stack and of the context managers on it.
stack_vars == <<stack, es_pc, seed_cm, acquired, released, failed, raised>>

\* No context manager has been entered.
StackIdle ==
    /\ stack = <<>>
    /\ es_pc = "idle"
    /\ seed_cm = "loop_dev"
    /\ acquired = <<>>
    /\ released = <<>>
    /\ failed = {}
    /\ raised = FALSE

\* The variables of copy_full_range.
copy_vars == <<count, offset_src, offset_dst, copy_pc, copied, copy_args, script, call>>

\* The variables of validate_virtual_data and parse.
map_vars == <<phys_map, called, result, report, parsed>>

\* copy_full_range has not been called.
CopyIdle ==
    /\ count = 0
    /\ offset_src = 0
    /\ offset_dst = 0
    /\ copy_pc = "idle"
    /\ copied = 0
    /\ copy_args = [count |-> 0, offset_src |-> 0, offset_dst |-> 0]
    /\ script = <<>>
    /\ call = 1

Init ==
    /\ \/ \E n \in 1..MaxChainRows, base \in 0..MaxOff :
              \E p \in [1..n -> ChainParams] : phys_map = ChainTable(p, base)
       \/ \E n \in 1..MaxTypedRows, base \in 0..MaxOff :
              \E p \in [1..n -> TypedChainParams] : phys_map = ChainTable(p, base)
       \/ \E n \in 0..MaxFreeRows : phys_map \in [1..n -> FreeRows]
       \/ \E n \in 1..MaxChainRows, base \in 0..MaxOff :
              \E p \in [1..n -> ZeroSizeChainParams] : phys_map = ChainTable(p, base)
    /\ called = FALSE
    /\ result = Fail("none")
    /\ report = <<>>
    /\ parsed = ParseFail("none")
    /\ CopyIdle
    /\ StackIdle

Validate ==
    /\ ~called
    /\ called' = TRUE
    /\ result' = validate_virtual_data(phys_map)
    /\ UNCHANGED <<phys_map, report, parsed>>
    /\ UNCHANGED copy_vars
    /\ UNCHANGED stack_vars

Next ==
    Validate

Spec == Init /\ [][Next]_vars

\* ---------------------------------------------------------------------
\* Report texts handed to parse
\* ---------------------------------------------------------------------
\* The title line as fields.
TitleFields ==
    [i \in 1..Len(COL_ORDER) |-> <<COL_ORDER[i]>>]

\* The title line, the title line with its first two titles exchanged,
\* the title line without its last title, and an empty line.
HeaderVariants ==
    { TitleFields,
      [TitleFields EXCEPT ![1] = TitleFields[2], ![2] = TitleFields[1]],
      SubSeq(TitleFields, 1, Len(COL_ORDER) - 1),
      << <<>> >> }

FieldCounts ==
    (Len(COL_ORDER) - MaxFieldDelta)..(Len(COL_ORDER) + MaxFieldDelta)

\* A data line of nf fields: "1" in every numeric column and "regular" in
\* the type column, except the text w at position k.
DataFields(nf, k, w) ==
    [i \in 1..nf |-> IF i = k THEN w
                     ELSE IF i <= Len(COL_ORDER) /\ COL_ORDER[i] = COL_EXTENT_TYPE
                          THEN <<"regular">>
                     ELSE <<"1">>]

\* The texts tried in the first field: numbers, a signed number, a letter
\* and the empty text.
FirstFieldTexts ==
    { <<"1">>, <<"1", "0">>, <<"-", "1">>, <<"x">>, <<>> }

DataLines ==
    UNION { { DataFields(nf, 1, w) : w \in FirstFieldTexts }
                \cup { DataFields(nf, 4, <<"x">>), DataFields(nf, nf, <<"x">>) } : nf \in FieldCounts }

\* sep.join(parts)
RECURSIVE Join(_, _)
Join(parts, sep) ==
    IF parts = <<>> THEN <<>>
    ELSE IF Len(parts) = 1 THEN parts[1]
    ELSE parts[1] \o <<sep>> \o Join(Tail(parts), sep)

\* The lines joined by newlines, followed by nl newlines.
ReportText(header, data, nl) ==
    Join(<<Join(header, TAB)>> \o [i \in 1..Len(data) |-> Join(data[i], TAB)], NL)
        \o [i \in 1..nl |-> NL]

InitParse ==
    /\ \E header \in HeaderVariants, n \in 0..MaxParseRows, nl \in 0..MaxTrailingNL :
           \E data \in [1..n -> DataLines] : report = ReportText(header, data, nl)
    /\ parsed = ParseFail("none")
    /\ phys_map = <<>>
    /\ called = FALSE
    /\ result = Fail("none")
    /\ CopyIdle
    /\ StackIdle

Parse ==
    /\ parsed.tag = "none"
    /\ parsed' = parse(report)
    /\ UNCHANGED <<phys_map, called, result, report>>
    /\ UNCHANGED copy_vars
    /\ UNCHANGED stack_vars

NextParse ==
    Parse

SpecParse == InitParse /\ [][NextParse]_vars

\* ---------------------------------------------------------------------
\* copy_full_range (btrfs_ublk.py:20-30)
\* ---------------------------------------------------------------------
\* What os.copy_file_range returns at a call: the kernel copies at most the
\* requested count and the file decides how much of it.  The returns of
\* successive calls are read off a script, which is repeated when it runs
\* out, so that a script stands for an unending sequence of returns.
copy_file_range(requested) ==
    Min(script[call], requested)

InitCopy ==
    /\ count \in 0..MaxCount
    /\ offset_src \in 0..MaxOff
    /\ offset_dst \in 0..MaxOff
    /\ script \in [1..ScriptLen -> 0..MaxCount]
    /\ call = 1
    /\ copied = 0
    /\ copy_args = [count |-> count, offset_src |-> offset_src, offset_dst |-> offset_dst]
    /\ copy_pc = "loop"
    /\ phys_map = <<>>
    /\ called = FALSE
    /\ result = Fail("none")
    /\ report = <<>>
    /\ parsed = ParseFail("none")
    /\ StackIdle

\* One turn of the loop, lines 26-30.
CopyCall ==
    /\ copy_pc = "loop"
    /\ count # 0
    /\ LET ret == copy_file_range(count)
       IN /\ count' = count - ret
          /\ offset_src' = offset_src + ret
          /\ offset_dst' = offset_dst + ret
          /\ copied' = copied + ret
    /\ call' = (call % ScriptLen) + 1
    /\ UNCHANGED <<copy_pc, copy_args, script>>
    /\ UNCHANGED map_vars
    /\ UNCHANGED stack_vars

\* The loop condition of line 26 is false: the function returns.
CopyReturn ==
    /\ copy_pc = "loop"
    /\ count = 0
    /\ copy_pc' = "done"
    /\ UNCHANGED <<count, offset_src, offset_dst, copied, copy_args, script, call>>
    /\ UNCHANGED map_vars
    /\ UNCHANGED stack_vars

NextCopy ==
    \/ CopyCall
    \/ CopyReturn

\* The interpreter keeps running the loop: a turn that can be taken is
\* taken.
SpecCopy == InitCopy /\ [][NextCopy]_vars /\ WF_vars(NextCopy)

\* ---------------------------------------------------------------------
\* Context managers on the exit stack (btrfs_ublk.py:42-102, 215-240)
\* ---------------------------------------------------------------------
\* The program of logical_reads_of_physical_writes (demo-generic.py:44-45)
\* and of main (benchmark.py:125-135) under `with ExitStack() as stack`:
\* the seed device is entered with loop_dev or ublk_loop_dev, then
\* set_up_temp_seed_backed_mount enters temp_dir, loop_dev and mount, adds
\* the device and remounts, and the caller's body follows.
Program ==
    <<"seed_loop", "temp_dir", "rw_loop", "mount", "device_add", "remount", "body">>

\* The steps that enter a context manager: the acquire command of each is
\* the one before its `try`.
Resources ==
    {"seed_loop", "temp_dir", "rw_loop", "mount"}

SeedManagers ==
    {"loop_dev", "ublk_loop_dev"}

\* The step after step p, or "unwind" after the last one.
StepAfter(p) ==
    LET i == CHOOSE i \in 1..Len(Program) : Program[i] = p
    IN IF i = Len(Program) THEN "unwind" ELSE Program[i + 1]

\* ExitIndex that leaves the contexts in the order they were entered.
ExitIndex_First(s) ==
    1

\* The context the exit stack leaves next: the one entered last.
ExitIndex(s) ==
    Len(s)

\* s without its element at index i.
Without(s, i) ==
    SubSeq(s, 1, i - 1) \o SubSeq(s, i + 1, Len(s))

InitStack ==
    /\ seed_cm \in SeedManagers
    /\ stack = <<>>
    /\ es_pc = Program[1]
    /\ acquired = <<>>
    /\ released = <<>>
    /\ failed = {}
    /\ raised = FALSE
    /\ phys_map = <<>>
    /\ called = FALSE
    /\ result = Fail("none")
    /\ report = <<>>
    /\ parsed = ParseFail("none")
    /\ CopyIdle

\* stack.enter_context(cm): the acquire command succeeds, the generator
\* reaches its yield inside `try`, and the context is on the stack.
Enter ==
    /\ es_pc \in Resources
    /\ stack' = Append(stack, es_pc)
    /\ acquired' = Append(acquired, es_pc)
    /\ es_pc' = StepAfter(es_pc)
    /\ UNCHANGED <<seed_cm, released, failed, raised>>
    /\ UNCHANGED map_vars
    /\ UNCHANGED copy_vars

\* The acquire command fails: check_output or check_call raises before
\* the `try`, nothing is acquired and nothing is put on the stack.
EnterFails ==
    /\ es_pc \in Resources
    /\ raised' = TRUE
    /\ es_pc' = "unwind"
    /\ UNCHANGED <<stack, seed_cm, acquired, released, failed>>
    /\ UNCHANGED map_vars
    /\ UNCHANGED copy_vars

\* A step that enters nothing (lines 233, 236, and the caller's body) ends
\* normally.
Step ==
    /\ es_pc \in {"device_add", "remount", "body"}
    /\ es_pc' = StepAfter(es_pc)
    /\ UNCHANGED <<stack, seed_cm, acquired, released, failed, raised>>
    /\ UNCHANGED map_vars
    /\ UNCHANGED copy_vars

\* Such a step raises.
StepFails ==
    /\ es_pc \in {"device_add", "remount", "body"}
    /\ raised' = TRUE
    /\ es_pc' = "unwind"
    /\ UNCHANGED <<stack, seed_cm, acquired, released, failed>>
    /\ UNCHANGED map_vars
    /\ UNCHANGED copy_vars

\* ExitStack.__exit__ leaves one context: the generator resumes (or has
\* the exception thrown in), its `finally` runs the release command, and
\* the command succeeds.
Leave ==
    /\ es_pc = "unwind"
    /\ stack # <<>>
    /\ released' = Append(released, stack[ExitIndex(stack)])
    /\ stack' = Without(stack, ExitIndex(stack))
    /\ UNCHANGED <<es_pc, seed_cm, acquired, failed, raised>>
    /\ UNCHANGED map_vars
    /\ UNCHANGED copy_vars

\* The release command is run and fails: check_call raises out of the
\* `finally`, and the exit stack goes on with the remaining contexts.
LeaveFails ==
    /\ es_pc = "unwind"
    /\ stack # <<>>
    /\ released' = Append(released, stack[ExitIndex(stack)])
    /\ failed' = failed \cup {stack[ExitIndex(stack)]}
    /\ raised' = TRUE
    /\ stack' = Without(stack, ExitIndex(stack))
    /\ UNCHANGED <<es_pc, seed_cm, acquired>>
    /\ UNCHANGED map_vars
    /\ UNCHANGED copy_vars

\* The `with ExitStack()` statement is left.
Exit ==
    /\ es_pc = "unwind"
    /\ stack = <<>>
    /\ es_pc' = "exited"
    /\ UNCHANGED <<stack, seed_cm, acquired, released, failed, raised>>
    /\ UNCHANGED map_vars
    /\ UNCHANGED copy_vars

NextStack ==
    \/ Enter
    \/ EnterFails
    \/ Step
    \/ StepFails
    \/ Leave
    \/ LeaveFails
    \/ Exit

SpecStack == InitStack /\ [][NextStack]_vars

Accepted == called /\ result.tag = "ok"

\* The table as the validator sees it after line 121.
SortedMap == SortByFileOffset(phys_map)

NumRows == Len(phys_map)

\* ---------------------------------------------------------------------
\* Vocabulary of the properties
\* ---------------------------------------------------------------------
\* Row i carries file byte b onto physical byte p.
MapsByte(row, b, p) ==
    /\ row[COL_FILE_OFFSET] <= b
    /\ b < row[COL_FILE_OFFSET] + row[COL_FILE_SIZE]
    /\ row[COL_PHYSICAL_OFFSET] + row[COL_EXTENT_OFFSET]
           + (b - row[COL_FILE_OFFSET]) = p

\* All permutations of 1..n.
Perms(n) ==
    { f \in [1..n -> 1..n] : \A i, j \in 1..n : f[i] = f[j] => i = j }

Permuted(pm, f) ==
    [i \in 1..Len(pm) |-> pm[f[i]]]

\* Same outcome: the same triple, or a failure in both cases.
SameOutcome(a, b) ==
    IF a.tag = "ok" \/ b.tag = "ok" THEN a = b ELSE TRUE

\* Row i of pm starts a group.
StartsGroup(pm, i) ==
    pm[i][COL_EXTENT_OFFSET] = 0

\* Rows i..j of pm are one whole group: i starts it, no row after i in it
\* starts one, and j is the last row or the row before the next start.
IsGroup(pm, i, j) ==
    /\ i <= j
    /\ StartsGroup(pm, i)
    /\ \A k \in (i + 1)..j : ~StartsGroup(pm, k)
    /\ j = Len(pm) \/ StartsGroup(pm, j + 1)

IsLastGroup(pm, j) ==
    j = Len(pm)

RECURSIVE FileSizeTotal(_, _, _)
FileSizeTotal(pm, i, j) ==
    IF j < i THEN 0 ELSE pm[j][COL_FILE_SIZE] + FileSizeTotal(pm, i, j - 1)

\* Every logical extent is exactly covered by its own file extents.
CorrectlyTiled(pm) ==
    /\ pm # <<>>
    /\ StartsGroup(pm, 1)
    /\ \A i, j \in 1..Len(pm) :
           IsGroup(pm, i, j) =>
               /\ \A k \in i..j :
                      /\ pm[k][COL_EXTENT_OFFSET] = FileSizeTotal(pm, i, k - 1)
                      /\ pm[k][COL_LOGICAL_OFFSET] = pm[i][COL_LOGICAL_OFFSET]
                      /\ pm[k][COL_LOGICAL_SIZE] = pm[i][COL_LOGICAL_SIZE]
               /\ FileSizeTotal(pm, i, j) = pm[i][COL_LOGICAL_SIZE]
    /\ \A i, j \in 1..Len(pm) :
           pm[i][COL_LOGICAL_OFFSET] = pm[j][COL_LOGICAL_OFFSET]
               => \A k \in i..j : ~StartsGroup(pm, k) \/ k = i

\* Two rows whose (offset, size) ranges differ and share a byte.
RangesOverlap(pm, col_offset, col_size) ==
    \E i, j \in 1..Len(pm) :
        /\ <<pm[i][col_offset], pm[i][col_size]>> # <<pm[j][col_offset], pm[j][col_size]>>
        /\ pm[i][col_offset] < pm[j][col_offset] + pm[j][col_size]
        /\ pm[j][col_offset] < pm[i][col_offset] + pm[i][col_size]

\* Column col decreases somewhere along the rows of pm.
Decreases(pm, col) ==
    \E i \in 1..(Len(pm) - 1) : pm[i][col] > pm[i + 1][col]

FileContigs == gen_continuous_parts(SortedMap, COL_FILE_OFFSET, COL_FILE_SIZE)

LogicalContigs == gen_continuous_parts(SortedMap, COL_LOGICAL_OFFSET, COL_LOGICAL_SIZE)

PhysContigs == gen_continuous_parts(SortedMap, COL_PHYSICAL_OFFSET, COL_PHYSICAL_SIZE)

\* Sum of the second components of a set of pairs.
RECURSIVE SumOfPairSet(_)
SumOfPairSet(S) ==
    IF S = {} THEN 0
    ELSE LET x == CHOOSE x \in S : TRUE IN x[2] + SumOfPairSet(S \ {x})

\* ---------------------------------------------------------------------
\* C1
\* ---------------------------------------------------------------------
\* C1: whenever the validator accepts a table and returns (F, P, S), every
\* file byte F+k with 0 <= k < S is carried by some row onto physical
\* byte P+k.
C1_BytesCorrespond ==
    Accepted =>
        \A k \in 0..(result.size - 1) :
            \E i \in 1..NumRows :
                MapsByte(phys_map[i], result.file_offset + k,
                         result.physical_offset + k)

\* ---------------------------------------------------------------------
\* C2
\* ---------------------------------------------------------------------
\* C2: validating any permutation of the rows gives the same outcome as
\* validating the table itself (same triple, or failure in both cases).
C2_PermutationInvariant ==
    called =>
        \A f \in Perms(NumRows) :
            SameOutcome(validate_virtual_data(Permuted(phys_map, f)), result)

\* ---------------------------------------------------------------------
\* C3
\* ---------------------------------------------------------------------
\* C3: whenever the validator accepts a table, every group other than the
\* last has a file_size total equal to the logical_size of the logical
\* extent its own rows reference.
C3_GroupsMatchOwnExtent ==
    Accepted =>
        \A i, j \in 1..NumRows :
            IsGroup(SortedMap, i, j) /\ ~IsLastGroup(SortedMap, j) =>
                \A k \in i..j :
                    FileSizeTotal(SortedMap, i, j) = SortedMap[k][COL_LOGICAL_SIZE]

\* ---------------------------------------------------------------------
\* C4
\* ---------------------------------------------------------------------
\* C4: the grouping step does not reject a table in which every logical
\* extent is exactly covered by its own file extents.
C4_TiledNotRejectedByGrouping ==
    called /\ CorrectlyTiled(SortedMap) => result.tag # "GroupingError"

\* ---------------------------------------------------------------------
\* C5
\* ---------------------------------------------------------------------
EarlierThanOverlap == {"OverlapError", "OrderError", "ContinuityError"}

\* C5 (as stated): a table with two rows whose ranges in one of the three
\* address spaces differ and share a byte fails with the overlap failure.
C5_OverlapAlwaysOverlapError ==
    called /\ ( \/ RangesOverlap(phys_map, COL_FILE_OFFSET, COL_FILE_SIZE)
                \/ RangesOverlap(phys_map, COL_LOGICAL_OFFSET, COL_LOGICAL_SIZE)
                \/ RangesOverlap(phys_map, COL_PHYSICAL_OFFSET, COL_PHYSICAL_SIZE) )
        => result.tag = "OverlapError"

\* C5 (amended): such a table is always rejected.  An overlap of file
\* ranges fails with the overlap failure.  An overlap of logical or
\* physical ranges fails with the overlap failure unless a check that
\* runs before that space's scan fails first: the continuity failure,
\* only when the file ranges do not form exactly one contig, or the
\* order failure, only when a logical or physical offset column is not
\* co-sorted with the file offsets.
C5_OverlapRejected ==
    called =>
        /\ RangesOverlap(phys_map, COL_FILE_OFFSET, COL_FILE_SIZE)
               => result.tag = "OverlapError"
        /\ ( \/ RangesOverlap(phys_map, COL_LOGICAL_OFFSET, COL_LOGICAL_SIZE)
             \/ RangesOverlap(phys_map, COL_PHYSICAL_OFFSET, COL_PHYSICAL_SIZE) )
               => /\ result.tag \in EarlierThanOverlap
                  /\ result.tag = "ContinuityError"
                         => FileContigs.err = "none" /\ Len(FileContigs.parts) # 1
                  /\ result.tag = "OrderError"
                         => \/ Decreases(SortedMap, COL_LOGICAL_OFFSET)
                            \/ Decreases(SortedMap, COL_PHYSICAL_OFFSET)

\* A physical overlap in a table whose file ranges are fine is reported
\* as the overlap failure.
C5_Witness ==
    /\ called
    /\ ~RangesOverlap(phys_map, COL_FILE_OFFSET, COL_FILE_SIZE)
    /\ ~RangesOverlap(phys_map, COL_LOGICAL_OFFSET, COL_LOGICAL_SIZE)
    /\ RangesOverlap(phys_map, COL_PHYSICAL_OFFSET, COL_PHYSICAL_SIZE)
    /\ result.tag = "OverlapError"

\* ---------------------------------------------------------------------
\* C6
\* ---------------------------------------------------------------------
SixTotals ==
    << SumSizes(FileContigs.parts),
       SumSizes(LogicalContigs.parts),
       SumSizes(PhysContigs.parts),
       FileSizeTotal(phys_map, 1, NumRows),
       SumOfPairSet(UniqPairs(phys_map, COL_LOGICAL_OFFSET, COL_LOGICAL_SIZE)),
       SumOfPairSet(UniqPairs(phys_map, COL_PHYSICAL_OFFSET, COL_PHYSICAL_SIZE)) >>

\* C6: whenever the validator accepts a table, the three merged-contig
\* totals, the per-row file_size total and the totals of the deduplicated
\* logical and physical extents are all equal; hence a table in which two
\* of them differ is rejected.
C6_SixTotalsEqual ==
    Accepted => \A i, j \in 1..6 : SixTotals[i] = SixTotals[j]

\* An accepted table in which deduplication matters: fewer logical
\* extents than rows, and a non-zero total.
C6_Witness ==
    /\ Accepted
    /\ Cardinality(UniqPairs(phys_map, COL_LOGICAL_OFFSET, COL_LOGICAL_SIZE)) < NumRows
    /\ SixTotals[1] > 0

\* ---------------------------------------------------------------------
\* C7
\* ---------------------------------------------------------------------
\* C7: the validator accepts only tables whose file scan yields exactly
\* one merged interval; a table whose file scan yields two or more fails
\* with the continuity failure, and so does the table without rows.
C7_SingleFileContig ==
    called =>
        /\ result.tag = "ok"
               => FileContigs.err = "none" /\ Len(FileContigs.parts) = 1
        /\ FileContigs.err = "none" /\ Len(FileContigs.parts) >= 2
               => result.tag = "ContinuityError"
        /\ NumRows = 0 => result.tag = "ContinuityError"

\* A table with a hole between two file ranges of positive size was
\* rejected with the continuity failure.
C7_Witness ==
    /\ called
    /\ Len(FileContigs.parts) >= 2
    /\ \A i \in 1..NumRows : phys_map[i][COL_FILE_SIZE] > 0
    /\ result.tag = "ContinuityError"

\* ---------------------------------------------------------------------
\* C8
\* ---------------------------------------------------------------------
BeforeRowChecks ==
    {"OverlapError", "OrderError", "ContinuityError", "LengthMismatchError",
     "GroupingError"}

RowViolates(row) ==
    \/ row[COL_DEVICE_ID] # 1
    \/ row[COL_EXTENT_TYPE] # "regular"
    \/ row[COL_PHYSICAL_SIZE] # row[COL_LOGICAL_SIZE]

\* C8: whenever the validator accepts a table, every row has device id 1,
\* extent type "regular" and physical_size = logical_size; a table that
\* passes the earlier checks but has a row violating one of the three is
\* rejected by the per-row check.
C8_RowsSupported ==
    called =>
        /\ result.tag = "ok" => \A i \in 1..NumRows : ~RowViolates(phys_map[i])
        /\ (\E i \in 1..NumRows : RowViolates(phys_map[i]))
               /\ result.tag \notin BeforeRowChecks
               => result.tag = "UnsupportedLayoutError"

\* A table that is fine except for a row on device 2 was rejected.
C8_Witness ==
    /\ called
    /\ result.tag = "UnsupportedLayoutError"
    /\ \E i \in 1..NumRows : phys_map[i][COL_DEVICE_ID] # 1
    /\ \A i \in 1..NumRows :
           /\ phys_map[i][COL_EXTENT_TYPE] = "regular"
           /\ phys_map[i][COL_PHYSICAL_SIZE] = phys_map[i][COL_LOGICAL_SIZE]

\* ---------------------------------------------------------------------
\* C9
\* ---------------------------------------------------------------------
\* C9: whenever the validator accepts a table, neither the logical_offset
\* nor the physical_offset column decreases along the file-offset-sorted
\* rows; a table in which one of them decreases is rejected.
C9_OffsetsCoSorted ==
    Accepted =>
        /\ ~Decreases(SortedMap, COL_LOGICAL_OFFSET)
        /\ ~Decreases(SortedMap, COL_PHYSICAL_OFFSET)

\* An accepted table whose rows reference different logical and physical
\* extents.
C9_Witness ==
    /\ Accepted
    /\ NumRows >= 2
    /\ SortedMap[1][COL_LOGICAL_OFFSET] < SortedMap[2][COL_LOGICAL_OFFSET]
    /\ SortedMap[1][COL_PHYSICAL_OFFSET] < SortedMap[2][COL_PHYSICAL_OFFSET]

\* ---------------------------------------------------------------------
\* C10
\* ---------------------------------------------------------------------
\* C10: on success the returned (physical_offset, size) is a merged
\* physical contig, no merged physical contig is larger, and no merged
\* physical contig of the same size starts at a lower offset.
C10_LargestLowestContig ==
    Accepted =>
        LET cs == PhysContigs.parts
        IN /\ \E i \in 1..Len(cs) : cs[i] = <<result.physical_offset, result.size>>
           /\ \A j \in 1..Len(cs) : cs[j][2] <= result.size
           /\ \A j \in 1..Len(cs) :
                  cs[j][2] = result.size => cs[j][1] >= result.physical_offset

\* An accepted table with two largest physical contigs of the same
\* positive size.
C10_Witness ==
    /\ Accepted
    /\ result.size > 0
    /\ \E i, j \in 1..Len(PhysContigs.parts) :
           /\ i # j
           /\ PhysContigs.parts[i][2] = result.size
           /\ PhysContigs.parts[j][2] = result.size

\* ---------------------------------------------------------------------
\* C11
\* ---------------------------------------------------------------------
\* The largest merged physical contig, the lowest one among equals.
BigPhys ==
    CHOOSE c \in { PhysContigs.parts[i] : i \in 1..Len(PhysContigs.parts) } :
        \A i \in 1..Len(PhysContigs.parts) :
            \/ PhysContigs.parts[i][2] < c[2]
            \/ PhysContigs.parts[i][2] = c[2] /\ PhysContigs.parts[i][1] >= c[1]

\* Row i is the first row, in file-offset order, that starts at BigPhys.
FirstAtBigPhys(i) ==
    /\ SortedMap[i][COL_PHYSICAL_OFFSET] = BigPhys[1]
    /\ \A j \in 1..(i - 1) : SortedMap[j][COL_PHYSICAL_OFFSET] # BigPhys[1]

\* The physical scan completes and the first row at the largest contig
\* has a non-zero extent offset.
MidExtentStart ==
    /\ PhysContigs.err = "none"
    /\ PhysContigs.parts # <<>>
    /\ \E i \in 1..NumRows :
           FirstAtBigPhys(i) /\ SortedMap[i][COL_EXTENT_OFFSET] # 0

BeforeSelection ==
    {"OverlapError", "OrderError", "ContinuityError", "LengthMismatchError",
     "GroupingError", "UnsupportedLayoutError"}

\* C11 (as stated): a table in which the first row at the start of the
\* largest physical contig has a non-zero extent offset fails with the
\* boundary failure.
C11_MidExtentAlwaysBoundaryError ==
    called /\ MidExtentStart => result.tag = "BoundaryError"

\* C11 (amended): such a table is always rejected, and with the boundary
\* failure whenever none of the checks that run before it (overlap, order,
\* continuity, length, grouping, unsupported layout, and the sortedness
\* assertion of line 233) fails first; and every returned file_offset is
\* the file_offset of a row with extent offset 0 that starts at the
\* returned physical offset.
C11_BoundaryRejected ==
    called =>
        /\ MidExtentStart =>
               /\ result.tag # "ok"
               /\ result.tag \notin BeforeSelection \cup {"AssertionError"} =>
                      result.tag = "BoundaryError"
        /\ result.tag = "ok" =>
               \E i \in 1..NumRows :
                   /\ FirstAtBigPhys(i)
                   /\ SortedMap[i][COL_FILE_OFFSET] = result.file_offset
                   /\ SortedMap[i][COL_EXTENT_OFFSET] = 0

\* A table that passed every earlier check was rejected because its
\* largest physical contig starts in the middle of a logical extent.
C11_Witness ==
    /\ called
    /\ MidExtentStart
    /\ NumRows >= 2
    /\ result.tag = "BoundaryError"

\* ---------------------------------------------------------------------
\* C12
\* ---------------------------------------------------------------------
\* parse has returned or failed.
Parsed ==
    parsed.tag # "none"

\* The failures of parse: the assertions of common.py:14 and of line 61,
\* and the ValueError of int() at line 64.
FormatErrors ==
    {"SuffixError", "HeaderError", "ValueError"}

\* The text before the first newline of the report.
FirstLine ==
    Split(report, NL)[1]

\* The first line, split on tab, is the nine titles in the fixed order.
FirstLineIsHeader ==
    Split(FirstLine, TAB) = TitleFields

\* C12: whenever the first line of the report, split on tab, is not exactly
\* the nine-column header in the fixed order (the empty report included),
\* parse fails, before any integer is parsed, and returns no table.
C12_WrongHeaderFails ==
    Parsed /\ ~FirstLineIsHeader =>
        /\ parsed.tag \in {"SuffixError", "HeaderError"}
        /\ parsed.rows = <<>>

\* A report whose title line has two titles exchanged, followed by a data
\* line and one newline, has failed the header comparison.
C12_Witness ==
    /\ Parsed
    /\ ~FirstLineIsHeader
    /\ Len(Split(report, NL)) = 3
    /\ Len(Split(FirstLine, TAB)) = Len(COL_ORDER)
    /\ parsed.tag = "HeaderError"

\* ---------------------------------------------------------------------
\* C13
\* ---------------------------------------------------------------------
\* The lines of the report after the title line, as parse splits them.
DataLinesOf(text) ==
    Tail(Split(strip_nl(text).val, NL))

\* Some data line of the report has more or fewer than nine fields.
SomeFieldCountWrong ==
    \E i \in 1..Len(DataLinesOf(report)) :
        Len(Split(DataLinesOf(report)[i], TAB)) # Len(COL_ORDER)

\* C13: whenever a data line has a number of tab-separated fields other
\* than nine, parse fails; it never returns a record that lacks a column
\* or a table made from a line with surplus fields.
C13_FieldCountEnforced ==
    Parsed /\ parsed.tag = "ok" =>
        /\ ~SomeFieldCountWrong
        /\ \A i \in 1..Len(parsed.rows) :
               DOMAIN parsed.rows[i] = { COL_ORDER[c] : c \in 1..Len(COL_ORDER) }

\* ---------------------------------------------------------------------
\* C14
\* ---------------------------------------------------------------------
EndsInNewline ==
    EndsWith(report, <<NL>>)

\* The number of newlines in a text.
RECURSIVE CountNL(_)
CountNL(text) ==
    IF text = <<>> THEN 0
    ELSE (IF Head(text) = NL THEN 1 ELSE 0) + CountNL(Tail(text))

\* C14 as stated: for a report that does not end in a newline, parse gives
\* the table that it gives for the report with a newline appended.
C14_NewlineOptional ==
    Parsed /\ ~EndsInNewline =>
        (parse(report \o <<NL>>).tag = "ok" => parsed = parse(report \o <<NL>>))

\* C14: the trailing newline is required and exactly one is removed: parse
\* fails on every report that does not end in a newline; a table it
\* returns has one record per newline after the title line's; and a report
\* ending in two newlines keeps a final empty line, on which parse fails.
C14_OneNewlineRequired ==
    Parsed =>
        /\ ~EndsInNewline => parsed.tag = "SuffixError"
        /\ parsed.tag = "ok" => Len(parsed.rows) = CountNL(report) - 1
        /\ EndsWith(report, <<NL, NL>>) => parsed.tag \in {"HeaderError", "ValueError"}

\* A report with a data line and no final newline has failed, although the
\* same report with the newline appended parses to a one-record table.
C14_Witness ==
    /\ Parsed
    /\ ~EndsInNewline
    /\ parsed.tag = "SuffixError"
    /\ parse(report \o <<NL>>).tag = "ok"
    /\ Len(parse(report \o <<NL>>).rows) = 1

\* ---------------------------------------------------------------------
\* C15
\* ---------------------------------------------------------------------
\* The three (offset, size) column pairs gen_continuous_parts is given.
ColumnPairs ==
    { <<COL_FILE_OFFSET, COL_FILE_SIZE>>,
      <<COL_LOGICAL_OFFSET, COL_LOGICAL_SIZE>>,
      <<COL_PHYSICAL_OFFSET, COL_PHYSICAL_SIZE>> }

\* What list(gen_continuous_parts(...)) gives for the table and one pair.
PartsOf(cols) ==
    gen_continuous_parts(phys_map, cols[1], cols[2])

\* Two (offset, size) intervals have a byte in common.
ShareByte(a, b) ==
    a[1] < b[1] + b[2] /\ b[1] < a[1] + a[2]

\* Each interval ends at least one byte before the next interval starts.
Separated(parts) ==
    \A i \in 1..(Len(parts) - 1) : parts[i][1] + parts[i][2] < parts[i + 1][1]

\* C15: for each column pair on which gen_continuous_parts completes
\* without the overlap failure, the intervals it yields have strictly
\* ascending offsets, are pairwise disjoint, and are maximal: a gap of at
\* least one byte separates each interval from the next; for an empty
\* table it yields nothing.
C15_PartsAscendingMaximal ==
    called =>
        \A cols \in ColumnPairs :
            PartsOf(cols).err = "none" =>
                LET parts == PartsOf(cols).parts
                IN /\ \A i \in 1..(Len(parts) - 1) : parts[i][1] < parts[i + 1][1]
                   /\ \A i, j \in 1..Len(parts) :
                          i # j => ~ShareByte(parts[i], parts[j])
                   /\ Separated(parts)
                   /\ NumRows = 0 => parts = <<>>

\* Three records whose physical extents are two adjacent ones and a
\* separate one have been scanned into two physical intervals.
C15_Witness ==
    /\ called
    /\ NumRows = 3
    /\ PhysContigs.err = "none"
    /\ Cardinality(UniqPairs(phys_map, COL_PHYSICAL_OFFSET, COL_PHYSICAL_SIZE)) = 3
    /\ Len(PhysContigs.parts) = 2
    /\ \A i \in 1..NumRows : phys_map[i][COL_PHYSICAL_SIZE] > 0

\* ---------------------------------------------------------------------
\* C16
\* ---------------------------------------------------------------------
\* The sum of the sizes of a list of intervals.
PartsTotal(parts) ==
    SumSeq([i \in 1..Len(parts) |-> parts[i][2]])

\* The sum of one size column over all records, repeated pairs included.
RawTotal(cols) ==
    SumSeq([i \in 1..NumRows |-> phys_map[i][cols[2]]])

\* C16: for each column pair on which gen_continuous_parts completes
\* without the overlap failure, the sizes of the yielded intervals add up
\* to the sum of the sizes of the distinct (offset, size) pairs of the
\* table, each pair counted once however many records repeat it.
C16_PartsTotalIsDedupTotal ==
    called =>
        \A cols \in ColumnPairs :
            PartsOf(cols).err = "none" =>
                PartsTotal(PartsOf(cols).parts)
                    = SumOfPairSet(UniqPairs(phys_map, cols[1], cols[2]))

\* Three records, two of them on the same physical extent, have been
\* scanned: the intervals add up to less than the per-record sum.
C16_Witness ==
    /\ called
    /\ NumRows = 3
    /\ PartsOf(<<COL_PHYSICAL_OFFSET, COL_PHYSICAL_SIZE>>).err = "none"
    /\ Cardinality(UniqPairs(phys_map, COL_PHYSICAL_OFFSET, COL_PHYSICAL_SIZE)) = 2
    /\ PartsTotal(PartsOf(<<COL_PHYSICAL_OFFSET, COL_PHYSICAL_SIZE>>).parts)
           < RawTotal(<<COL_PHYSICAL_OFFSET, COL_PHYSICAL_SIZE>>)
    /\ phys_map[1][COL_PHYSICAL_OFFSET] > 0

\* ---------------------------------------------------------------------
\* C17
\* ---------------------------------------------------------------------
\* The record is one whole regular extent on device 1.
WholeExtent(row) ==
    /\ row[COL_EXTENT_OFFSET] = 0
    /\ row[COL_EXTENT_TYPE] = "regular"
    /\ row[COL_DEVICE_ID] = 1
    /\ row[COL_FILE_SIZE] = row[COL_LOGICAL_SIZE]
    /\ row[COL_LOGICAL_SIZE] = row[COL_PHYSICAL_SIZE]

\* C17: a one-record table whose record has extent_offset 0, type
\* 'regular', device id 1 and file_size = logical_size = physical_size
\* validates to (file_offset, physical_offset, physical_size) of that
\* record; a one-record table with file_size # logical_size is rejected.
C17_SingleExtent ==
    called /\ NumRows = 1 =>
        /\ WholeExtent(phys_map[1]) =>
               result = [tag |-> "ok",
                         file_offset |-> phys_map[1][COL_FILE_OFFSET],
                         physical_offset |-> phys_map[1][COL_PHYSICAL_OFFSET],
                         size |-> phys_map[1][COL_PHYSICAL_SIZE]]
        /\ phys_map[1][COL_FILE_SIZE] # phys_map[1][COL_LOGICAL_SIZE] => ~Accepted

\* A one-record table of a whole extent of two bytes, at non-zero file,
\* logical and physical offsets, has been accepted.
C17_Witness ==
    /\ called
    /\ NumRows = 1
    /\ WholeExtent(phys_map[1])
    /\ phys_map[1][COL_FILE_SIZE] = 2
    /\ phys_map[1][COL_FILE_OFFSET] = 1
    /\ phys_map[1][COL_PHYSICAL_OFFSET] = 1
    /\ Accepted

\* ---------------------------------------------------------------------
\* C18
\* ---------------------------------------------------------------------
\* The fields of the data lines that parse converts with int().
NumericFields ==
    UNION { { Split(DataLinesOf(report)[i], TAB)[c] :
                  c \in { c \in 1..ZipLen(Split(DataLinesOf(report)[i], TAB)) :
                             COL_ORDER[c] # COL_EXTENT_TYPE } } :
            i \in 1..Len(DataLinesOf(report)) }

\* C18: parse fails whenever a numeric column of a data line holds
\* anything but a non-negative base-10 integer (a string of digits); a
\* table it returns has no negative offset or size.
C18_NumericFieldsNonNegative ==
    Parsed /\ parsed.tag = "ok" =>
        /\ \A f \in NumericFields : AllDigits(f)
        /\ \A i \in 1..Len(parsed.rows) :
               \A col \in DOMAIN parsed.rows[i] :
                   col # COL_EXTENT_TYPE => parsed.rows[i][col] >= 0

\* ---------------------------------------------------------------------
\* C19
\* ---------------------------------------------------------------------
\* In file-offset order, logical_offset or physical_offset decreases.
NotCoSorted ==
    \/ Decreases(SortedMap, COL_LOGICAL_OFFSET)
    \/ Decreases(SortedMap, COL_PHYSICAL_OFFSET)

\* The file ranges do not overlap and do not merge into exactly one contig.
NotOneFileContig ==
    /\ FileContigs.err = "none"
    /\ Len(FileContigs.parts) # 1

\* C19 as stated: a table that violates both co-sortedness and the
\* single-file-contig requirement is rejected with the order failure.
C19_OrderBeforeContinuity ==
    called /\ NotCoSorted /\ NotOneFileContig => result.tag = "OrderError"

\* C19: the file-continuity check (line 149) runs before the co-sortedness
\* checks of physical_offset and logical_offset (lines 151 and 159), so a table
\* that violates both is rejected with the continuity failure; the order
\* failure is reported only for tables with exactly one file contig.
C19_ContinuityBeforeOrder ==
    called =>
        /\ NotCoSorted /\ NotOneFileContig => result.tag = "ContinuityError"
        /\ result.tag = "OrderError" =>
               /\ NotCoSorted
               /\ FileContigs.err = "none"
               /\ Len(FileContigs.parts) = 1

\* Two records with a hole between their file ranges and a decreasing
\* logical offset have been rejected with the continuity failure.
C19_Witness ==
    /\ called
    /\ NumRows = 2
    /\ Decreases(SortedMap, COL_LOGICAL_OFFSET)
    /\ NotOneFileContig
    /\ Len(FileContigs.parts) = 2
    /\ result.tag = "ContinuityError"

\* ---------------------------------------------------------------------
\* C20
\* ---------------------------------------------------------------------
\* C20: whenever the validator accepts a table, the file_size total of the
\* final group equals the logical_size of the logical extent referenced by
\* each record of that group.
C20_LastGroupMatchesExtent ==
    Accepted =>
        \A i, j \in 1..NumRows :
            IsGroup(SortedMap, i, j) /\ IsLastGroup(SortedMap, j) =>
                \A k \in i..j :
                    FileSizeTotal(SortedMap, i, j) = SortedMap[k][COL_LOGICAL_SIZE]

\* ---------------------------------------------------------------------
\* C21
\* ---------------------------------------------------------------------
\* The end of the file range of the last record in file-offset order.
FileEnd ==
    SortedMap[NumRows][COL_FILE_OFFSET] + SortedMap[NumRows][COL_FILE_SIZE]

\* C21: whenever the validator accepts a table and returns (F, P, S), F is
\* at least the smallest file_offset, F + S is at most the end of the last
\* record, and S is at most the total of the file sizes.
C21_SegmentInsideFile ==
    Accepted =>
        /\ result.file_offset >= SortedMap[1][COL_FILE_OFFSET]
        /\ result.file_offset + result.size <= FileEnd
        /\ result.size <= SumSeq([i \in 1..NumRows |-> SortedMap[i][COL_FILE_SIZE]])

\* ---------------------------------------------------------------------
\* C22
\* ---------------------------------------------------------------------
\* The validator has run and none of the checks before the selection of
\* the segment (line 227) has failed.
ReachedSelection ==
    called /\ result.tag \notin BeforeSelection

\* C22: for every table that passes all checks up to the selection of the
\* segment, some record has its physical_offset at the start of the chosen
\* largest physical contig, and validation never ends with the 'no file
\* offset match' failure.
C22_MatchNeverEmpty ==
    /\ result.tag # "NoMatchError"
    /\ ReachedSelection =>
           \E i \in 1..NumRows : SortedMap[i][COL_PHYSICAL_OFFSET] = BigPhys[1]

\* A table with two physical contigs, the larger one second, has reached
\* the selection and its leading record was found.
C22_Witness ==
    /\ ReachedSelection
    /\ Len(PhysContigs.parts) = 2
    /\ BigPhys = PhysContigs.parts[2]
    /\ \E i \in 2..NumRows : FirstAtBigPhys(i)
    /\ result.tag = "ok"

\* ---------------------------------------------------------------------
\* C23
\* ---------------------------------------------------------------------
\* The (file_offset, extent_offset) pairs of the records at the start of
\* the largest physical contig, in file-offset row order.
MatchedPairs ==
    file_offset_matches(SortedMap, BigPhys[1])

\* C23: the sortedness assertion of line 233 never fails: for every table
\* that passes all earlier checks the matched pairs, collected in row
\* order, ascend, and validation ends with a named failure or a result.
C23_MatchesAlwaysSorted ==
    /\ result.tag # "AssertionError"
    /\ ReachedSelection => IsSortedPairs(MatchedPairs)

\* ---------------------------------------------------------------------
\* C24
\* ---------------------------------------------------------------------
\* copy_full_range has returned.
CopyDone ==
    copy_pc = "done"

\* Each call requests what remains of count, at offsets advanced by the
\* bytes transferred so far, and on return count bytes were transferred.
CopyAccounting ==
    /\ count = copy_args.count - copied
    /\ offset_src = copy_args.offset_src + copied
    /\ offset_dst = copy_args.offset_dst + copied
    /\ CopyDone => copied = copy_args.count

\* C24: copy_full_range returns for every count >= 0 and every sequence of
\* copy_file_range returns between 0 and the requested length, and all
\* along each call requests the remaining count at the advanced offsets,
\* exactly count bytes having been transferred on return.
C24_CopyTerminatesWithCount ==
    <>CopyDone /\ []CopyAccounting

\* ---------------------------------------------------------------------
\* C25
\* ---------------------------------------------------------------------
\* The sequence s backwards.
Reverse(s) ==
    [i \in 1..Len(s) |-> s[Len(s) + 1 - i]]

\* The position of r in the sequence s, 0 when r is not in s.
IndexOf(s, r) ==
    IF \E i \in 1..Len(s) : s[i] = r THEN CHOOSE i \in 1..Len(s) : s[i] = r ELSE 0

\* The number of times the release command of r has been run.
TimesReleased(r) ==
    Cardinality({ i \in 1..Len(released) : released[i] = r })

====
